---- MODULE Spec2Model ----
(***************************************************************************)
(* PrixFixe: the MatrixEntityBuilder (src/attributes/matrix_entity_builder), *)
(* the cart operations declared by ICartOps (src/cart/interfaces), the     *)
(* child-validity tensor factory and printResults of src/cart/test.        *)
(*                                                                         *)
(* JavaScript values are modelled as follows.                              *)
(*   - `T | undefined` is a sequence: << >> is undefined, <<x>> is x.       *)
(*   - A Map is the sequence of its <<key, value>> entries in insertion    *)
(*     order, which is the order Map.prototype.entries() iterates in.      *)
(*   - A call's outcome is [kind, value]: kind "return" or "throw", value   *)
(*     the returned value or the error's message.                          *)
(*   - A template literal is the sequence of its pieces.                   *)
(*   - A KEY is the sequence of its ':'-separated fields.                  *)
(***************************************************************************)
EXTENDS Integers, Sequences, FiniteSets, TLC

VARIABLES
    builder,    \* builder[b]: the fields of MatrixEntityBuilder object b
    gen,        \* gen[b]: the generator last returned by b.getUnusedAttributes()
    hist,       \* hist[b]: what the caller has observed of b (history)
    items,      \* the ItemInstance objects of the heap, by reference
    carts,      \* the Cart objects the caller holds, by reference
    myCart,     \* the caller's cart: a reference
    idCounter,  \* the counter of the id generator behind nextId()
    ruleSet,    \* the RuleConfig given to childTensorFactory
    tensor,     \* the ValidChildTensor childTensorFactory returned
    printer,    \* printResults: its iterator, done, position and the console
    last        \* the last call made and its outcome

vars == <<builder, gen, hist, items, carts, myCart, idCounter, ruleSet,
          tensor, printer, last>>

\* What the callers of the builder and of the cart operations leave alone.
rest == <<ruleSet, tensor, printer>>

----------------------------------------------------------------------------
(* Bounds of the model.                                                    *)

NumDims == 2        \* dimensions the catalog registers
MaxItems == 3       \* ItemInstance objects on the heap
MaxCartLen == 3     \* top-level items of a cart
MaxRules == 3       \* rules of a RuleConfig
MaxYield == 3       \* items an iterator given to printResults yields

----------------------------------------------------------------------------
(* JavaScript helpers.                                                     *)

Undefined == << >>

Some(x) == <<x>>

\* Map.prototype.has
MapHas(m, k) == \E i \in 1..Len(m) : m[i][1] = k

\* Map.prototype.get
MapGet(m, k) ==
    IF MapHas(m, k)
    THEN Some(m[CHOOSE i \in 1..Len(m) : m[i][1] = k][2])
    ELSE Undefined

\* Map.prototype.set: an existing key keeps its place, a new key is appended.
MapSet(m, k, v) ==
    IF MapHas(m, k)
    THEN [i \in 1..Len(m) |-> IF m[i][1] = k THEN <<k, v>> ELSE m[i]]
    ELSE Append(m, <<k, v>>)

----------------------------------------------------------------------------
(* The catalog behind AttributeInfo: a fixture.  Every dimension has the   *)
(* positions of Positions; attribute a belongs to dimension                *)
(* (a \div AidsPerDim) + 1 at position a % AidsPerDim; one more AID is not *)
(* registered.  Entity 0 varies over dimensions 2 then 1, entity 1 over    *)
(* dimension 1, entity 2 over none, entity 3 has no Matrix.                *)

Dimensions == 1..NumDims

Positions == {0, 1}

AidsPerDim == Cardinality(Positions)

RegisteredAIDs == 0..(NumDims * AidsPerDim - 1)

UnknownAID == NumDims * AidsPerDim

AIDs == RegisteredAIDs \cup {UnknownAID}

PIDs == 0..3

\* new Matrix(id, dimensions)
Matrix(dims) == [dimensions |-> dims]

\* AttributeInfo.getAttributeCoordinates(aid): Coordinate | undefined
getAttributeCoordinates(aid) ==
    IF aid \in RegisteredAIDs
    THEN Some([dimension |-> [id |-> (aid \div AidsPerDim) + 1],
               position |-> aid % AidsPerDim])
    ELSE Undefined

\* AttributeInfo.getMatrixForEntity(pid): Matrix | undefined
getMatrixForEntity(pid) ==
    CASE pid = 0 -> Some(Matrix(<<2, 1>>))
      [] pid = 1 -> Some(Matrix(<<1>>))
      [] pid = 2 -> Some(Matrix(<< >>))
      [] OTHER   -> Undefined

\* Matrix.hasDimension(dimensionId)
MatrixHasDimension(matrix, did) ==
    \E i \in 1..Len(matrix.dimensions) : matrix.dimensions[i] = did

\* One field of a key: the position of the attribute chosen for a dimension,
\* or the wildcard when the caller supplied none.
KeyField(m, did) ==
    LET aid == MapGet(m, did) IN
    IF aid = Undefined
    THEN <<"*", 0>>
    ELSE <<"#", getAttributeCoordinates(aid[1])[1].position>>

\* Matrix.getKey(pid, dimensionIdToAttribute, info): the PID, then one field
\* per dimension of the Matrix, in the Matrix's order.
MatrixGetKey(matrix, pid, m) ==
    <<<<"#", pid>>>> \o
        [i \in 1..Len(matrix.dimensions) |-> KeyField(m, matrix.dimensions[i])]

----------------------------------------------------------------------------
(* MatrixEntityBuilder.  `self` is [pid, dimensionIdToAttribute]; every    *)
(* method returns the object after the call and the call's outcome.        *)

Builders == {1, 2}

\* constructor(info)
NewBuilder == [pid |-> Undefined, dimensionIdToAttribute |-> << >>]

Outcome(self, kind, value) == [self |-> self, kind |-> kind, value |-> value]

\* Mutation of setPID: setting the PID already held is accepted silently.
setPID_SameAccepted(self, pid) ==
    IF self.pid = Undefined \/ self.pid = Some(pid)
    THEN Outcome([self EXCEPT !.pid = Some(pid)], "return", <<TRUE>>)
    ELSE Outcome(self, "throw",
                 <<"attempting to overwrite entity ", self.pid[1], " with ", pid>>)

setPID(self, pid) ==
    IF self.pid = Undefined
    THEN Outcome([self EXCEPT !.pid = Some(pid)], "return", <<TRUE>>)
    ELSE Outcome(self, "throw",
                 <<"attempting to overwrite entity ", self.pid[1], " with ", pid>>)

\* Mutation of addAttribute: the last writer of a dimension wins.
addAttribute_Overwrites(self, attributeID) ==
    LET coordinate == getAttributeCoordinates(attributeID) IN
    IF coordinate = Undefined
    THEN Outcome(self, "throw", <<"unknown attribute ", attributeID, ".">>)
    ELSE Outcome([self EXCEPT !.dimensionIdToAttribute =
                        MapSet(@, coordinate[1].dimension.id, attributeID)],
                 "return", <<TRUE>>)

\* Mutation of addAttribute: the attribute is recorded (under key 0, standing
\* for the missing dimension id) before the missing coordinate is reported.
addAttribute_RecordsFirst(self, attributeID) ==
    LET coordinate == getAttributeCoordinates(attributeID) IN
    IF coordinate = Undefined
    THEN Outcome([self EXCEPT !.dimensionIdToAttribute =
                        MapSet(@, 0, attributeID)],
                 "throw", <<"unknown attribute ", attributeID, ".">>)
    ELSE IF MapHas(self.dimensionIdToAttribute, coordinate[1].dimension.id)
    THEN Outcome(self, "return", <<FALSE>>)
    ELSE Outcome([self EXCEPT !.dimensionIdToAttribute =
                        MapSet(@, coordinate[1].dimension.id, attributeID)],
                 "return", <<TRUE>>)

addAttribute(self, attributeID) ==
    LET coordinate == getAttributeCoordinates(attributeID) IN
    IF coordinate = Undefined
    THEN Outcome(self, "throw", <<"unknown attribute ", attributeID, ".">>)
    ELSE IF MapHas(self.dimensionIdToAttribute, coordinate[1].dimension.id)
    THEN Outcome(self, "return", <<FALSE>>)
    ELSE Outcome([self EXCEPT !.dimensionIdToAttribute =
                        MapSet(@, coordinate[1].dimension.id, attributeID)],
                 "return", <<TRUE>>)

\* Mutation of getKey: a builder without PID yields the key of entity 0.
getKey_DefaultPID(self) ==
    LET pid == IF self.pid = Undefined THEN 0 ELSE self.pid[1]
        matrix == getMatrixForEntity(pid)
    IN  IF matrix = Undefined
        THEN Outcome(self, "throw", <<"Cannot read property 'getKey' of undefined">>)
        ELSE Outcome(self, "return",
                     Some(MatrixGetKey(matrix[1], pid, self.dimensionIdToAttribute)))

\* Mutation of getKey: the key lists the collected attributes in the order
\* they were collected instead of asking the Matrix.
getKey_InsertionOrder(self) ==
    IF self.pid = Undefined
    THEN Outcome(self, "throw", <<"no pid set">>)
    ELSE LET matrix == getMatrixForEntity(self.pid[1])
             m == self.dimensionIdToAttribute
         IN
         IF matrix = Undefined
         THEN Outcome(self, "throw", <<"Cannot read property 'getKey' of undefined">>)
         ELSE Outcome(self, "return",
                      Some(<<<<"#", self.pid[1]>>>> \o
                           [i \in 1..Len(m) |->
                               <<"#", getAttributeCoordinates(m[i][2])[1].position>>]))

\* Mutation of getKey: an entity without dimensions has no key.
getKey_NoDimensionsNoKey(self) ==
    IF self.pid = Undefined
    THEN Outcome(self, "throw", <<"no pid set">>)
    ELSE LET matrix == getMatrixForEntity(self.pid[1]) IN
         IF matrix = Undefined
         THEN Outcome(self, "throw", <<"Cannot read property 'getKey' of undefined">>)
         ELSE IF Len(matrix[1].dimensions) = 0
         THEN Outcome(self, "return", Undefined)
         ELSE Outcome(self, "return",
                      Some(MatrixGetKey(matrix[1], self.pid[1],
                                        self.dimensionIdToAttribute)))

\* getKey.  matrix.getKey(...) on an entity without Matrix is a property read
\* of undefined, which the runtime answers with a TypeError.
getKey(self) ==
    IF self.pid = Undefined
    THEN Outcome(self, "throw", <<"no pid set">>)
    ELSE LET matrix == getMatrixForEntity(self.pid[1]) IN
         IF matrix = Undefined
         THEN Outcome(self, "throw", <<"Cannot read property 'getKey' of undefined">>)
         ELSE Outcome(self, "return",
                      Some(MatrixGetKey(matrix[1], self.pid[1],
                                        self.dimensionIdToAttribute)))

\* Mutation of getUnusedAttributes: the test of hasDimension is inverted.
genAdvance_Inverted(entries, matrix, idx) ==
    LET unused == {j \in (idx + 1)..Len(entries) :
                        MatrixHasDimension(matrix, entries[j][1])}
    IN  IF unused = {} THEN 0
        ELSE CHOOSE j \in unused : \A k \in unused : j <= k

\* The for-of loop of getUnusedAttributes, resumed after entry idx: the index
\* of the next entry whose dimension the matrix lacks, 0 when the entries run
\* out.  The iterator of a Map is live: it sees entries set after it started.
genAdvance(entries, matrix, idx) ==
    LET unused == {j \in (idx + 1)..Len(entries) :
                        ~MatrixHasDimension(matrix, entries[j][1])}
    IN  IF unused = {} THEN 0
        ELSE CHOOSE j \in unused : \A k \in unused : j <= k

\* Mutation of getUnusedAttributes: the Matrix of the entity is not looked
\* up, every entity is given the Matrix without dimensions.
genMatrix_NoLookup(self) == Matrix(<< >>)

\* The matrix getUnusedAttributes settles on when its body starts to run.
genMatrix(self) ==
    LET matrix == IF self.pid # Undefined
                  THEN getMatrixForEntity(self.pid[1])
                  ELSE Undefined
    IN  IF matrix = Undefined THEN Matrix(<< >>) ELSE matrix[1]

NoGenerator == [state |-> "none", matrix |-> Matrix(<< >>), idx |-> 0, out |-> << >>]

\* *getUnusedAttributes(): calling a generator function runs none of its body.
getUnusedAttributes(self) ==
    [state |-> "suspendedStart", matrix |-> Matrix(<< >>), idx |-> 0, out |-> << >>]

\* generator.next(): run the body to its next yield or to its end.
genNext(self, g) ==
    IF g.state = "completed"
    THEN [gen |-> g, kind |-> "done", value |-> Undefined]
    ELSE LET matrix == IF g.state = "suspendedStart" THEN genMatrix(self) ELSE g.matrix
             j == genAdvance(self.dimensionIdToAttribute, matrix, g.idx)
         IN  IF j = 0
             THEN [gen |-> [g EXCEPT !.state = "completed", !.matrix = matrix,
                                     !.idx = Len(self.dimensionIdToAttribute)],
                   kind |-> "done", value |-> Undefined]
             ELSE [gen |-> [state |-> "suspendedYield", matrix |-> matrix, idx |-> j,
                            out |-> Append(g.out, self.dimensionIdToAttribute[j][2])],
                   kind |-> "yield",
                   value |-> Some(self.dimensionIdToAttribute[j][2])]

----------------------------------------------------------------------------
(* The callers of a builder: one action per method call.  hist[b] records  *)
(* what the caller saw: whether setPID was ever called, the PIDs for which *)
(* setPID returned, the AIDs for which addAttribute returned true, in call *)
(* order, whether addAttribute ever threw, and, for the callers that note  *)
(* it, the fields of the builder when getUnusedAttributes was last called. *)

NoHistory ==
    [setPIDCalled |-> FALSE, pidsSet |-> {}, added |-> << >>, addThrew |-> FALSE,
     atCall |-> NewBuilder]

Call(op, b, arg, kind, value) ==
    [op |-> op, b |-> b, arg |-> arg, kind |-> kind, value |-> value]

\* No rule set was given, printResults was not called.
NoRules == [rules |-> << >>]

NoPrinter == [pc |-> "idle", gen |-> << >>, done |-> FALSE, console |-> << >>]

InitBuilders ==
    /\ builder = [b \in Builders |-> NewBuilder]
    /\ gen = [b \in Builders |-> NoGenerator]
    /\ hist = [b \in Builders |-> NoHistory]
    /\ items = << >>
    /\ carts = << >>
    /\ myCart = 0
    /\ idCounter = 0
    /\ ruleSet = NoRules
    /\ tensor = Undefined
    /\ printer = NoPrinter
    /\ last = Call("new", 0, << >>, "return", << >>)

SetPIDWith(b, pid) ==
    LET r == setPID(builder[b], pid) IN
    /\ builder' = [builder EXCEPT ![b] = r.self]
    /\ hist' = [hist EXCEPT
            ![b].setPIDCalled = TRUE,
            ![b].pidsSet = IF r.kind = "return" THEN @ \cup {pid} ELSE @]
    /\ last' = Call("setPID", b, <<pid>>, r.kind, r.value)
    /\ UNCHANGED <<gen, items, carts, myCart, idCounter, rest>>

AddAttributeWith(b, aid) ==
    LET r == addAttribute(builder[b], aid) IN
    /\ builder' = [builder EXCEPT ![b] = r.self]
    /\ hist' = [hist EXCEPT
            ![b].added = IF r.kind = "return" /\ r.value = <<TRUE>>
                         THEN Append(@, aid) ELSE @,
            ![b].addThrew = @ \/ r.kind = "throw"]
    /\ last' = Call("addAttribute", b, <<aid>>, r.kind, r.value)
    /\ UNCHANGED <<gen, items, carts, myCart, idCounter, rest>>

SetPID(b) == \E pid \in PIDs : SetPIDWith(b, pid)

AddAttribute(b) == \E aid \in AIDs : AddAttributeWith(b, aid)

GetKey(b) ==
    LET r == getKey(builder[b]) IN
    /\ builder' = [builder EXCEPT ![b] = r.self]
    /\ last' = Call("getKey", b, << >>, r.kind, r.value)
    /\ UNCHANGED <<gen, hist, items, carts, myCart, idCounter, rest>>

GetUnusedAttributes(b) ==
    /\ gen' = [gen EXCEPT ![b] = getUnusedAttributes(builder[b])]
    /\ last' = Call("getUnusedAttributes", b, << >>, "return", << >>)
    /\ UNCHANGED <<builder, hist, items, carts, myCart, idCounter, rest>>

GenNext(b) ==
    /\ gen[b].state # "none"
    /\ LET r == genNext(builder[b], gen[b]) IN
        /\ gen' = [gen EXCEPT ![b] = r.gen]
        /\ last' = Call("next", b, << >>, r.kind, r.value)
    /\ UNCHANGED <<builder, hist, items, carts, myCart, idCounter, rest>>

\* One builder, its callers and the consumer of its generator.
NextBuilder ==
    \/ SetPID(1)
    \/ AddAttribute(1)
    \/ GetKey(1)
    \/ GetUnusedAttributes(1)
    \/ GenNext(1)

SpecBuilder == InitBuilders /\ [][NextBuilder]_vars

Range(f) == {f[i] : i \in DOMAIN f}

\* Builder 2 is given the calls that succeeded on builder 1, in any order.
RepeatSetPID ==
    \E pid \in hist[1].pidsSet \ hist[2].pidsSet : SetPIDWith(2, pid)

RepeatAddAttribute ==
    \E aid \in Range(hist[1].added) \ Range(hist[2].added) : AddAttributeWith(2, aid)

\* Two builders: the first is given any calls, the second the calls that
\* succeeded on the first, in any order.
NextPair ==
    \/ SetPID(1)
    \/ AddAttribute(1)
    \/ GetKey(1)
    \/ RepeatSetPID
    \/ RepeatAddAttribute
    \/ GetKey(2)

SpecPair == InitBuilders /\ [][NextPair]_vars

----------------------------------------------------------------------------
(* Properties of MatrixEntityBuilder.  A step is recognised by last', the  *)
(* call it made; unprimed variables are the state before the call.         *)

IsCall(c, op, b) == c.op = op /\ c.b = b

\* The step on which the generator of builder b runs to its end.
Completes(b) ==
    /\ IsCall(last', "next", b)
    /\ last'.kind = "done"
    /\ gen[b].state \in {"suspendedStart", "suspendedYield"}

AtMostOnePerDimension(m) ==
    \A i, j \in 1..Len(m) : m[i][1] = m[j][1] => i = j

\* C1: setPID returns true only on the first call made on a builder; every
\* later call, with the PID held or with another, throws an error whose
\* message names the PID held and the PID passed, and changes neither the
\* PID held nor the attributes collected.
C1_SetPIDOnlyOnce ==
    [][\A b \in Builders :
        IsCall(last', "setPID", b) =>
            /\ last'.kind = "return" => ~hist[b].setPIDCalled
            /\ hist[b].setPIDCalled =>
                /\ last'.kind = "throw"
                /\ builder[b].pid # Undefined
                /\ last'.value = <<"attempting to overwrite entity ",
                                   builder[b].pid[1], " with ", last'.arg[1]>>
                /\ builder'[b] = builder[b]
    ]_vars

\* C1 witness: a second setPID with the PID already held has thrown, on a
\* builder that holds attributes.
C1_Witness ==
    /\ IsCall(last, "setPID", 1)
    /\ last.kind = "throw"
    /\ builder[1].pid = last.arg
    /\ Len(builder[1].dimensionIdToAttribute) > 0

\* C2: addAttribute of a registered AID whose dimension is already filled
\* returns false and changes nothing; otherwise it records the AID under its
\* dimension, leaves the other dimensions and the PID alone and returns true.
\* The builder never holds two AIDs for one dimension.
C2_FirstWriterWins ==
    [][\A b \in Builders :
        (/\ IsCall(last', "addAttribute", b)
         /\ getAttributeCoordinates(last'.arg[1]) # Undefined) =>
            LET did == getAttributeCoordinates(last'.arg[1])[1].dimension.id
                old == builder[b].dimensionIdToAttribute
                new == builder'[b].dimensionIdToAttribute
            IN  /\ last'.kind = "return"
                /\ builder'[b].pid = builder[b].pid
                /\ IF MapHas(old, did)
                   THEN last'.value = <<FALSE>> /\ new = old
                   ELSE /\ last'.value = <<TRUE>>
                        /\ MapGet(new, did) = last'.arg
                        /\ \A d \in Dimensions \ {did} : MapGet(new, d) = MapGet(old, d)
                /\ AtMostOnePerDimension(new)
                /\ Len(new) <= NumDims
    ]_vars

\* C2 witness: an AID was refused because another AID holds its dimension.
C2_Witness ==
    /\ IsCall(last, "addAttribute", 1)
    /\ last.kind = "return"
    /\ last.value = <<FALSE>>
    /\ \E i \in 1..Len(builder[1].dimensionIdToAttribute) :
        /\ builder[1].dimensionIdToAttribute[i][1] =
                getAttributeCoordinates(last.arg[1])[1].dimension.id
        /\ builder[1].dimensionIdToAttribute[i][2] # last.arg[1]

\* C3: addAttribute of an AID the attribute table does not know throws the
\* unknown-attribute error and leaves the PID and the collected attributes
\* as they were.
C3_UnknownAttributeThrows ==
    [][\A b \in Builders :
        (/\ IsCall(last', "addAttribute", b)
         /\ getAttributeCoordinates(last'.arg[1]) = Undefined) =>
            /\ last'.kind = "throw"
            /\ last'.value = <<"unknown attribute ", last'.arg[1], ".">>
            /\ builder'[b] = builder[b]
    ]_vars

\* C3 witness: an unknown AID was refused by a builder that holds a PID and
\* attributes.
C3_Witness ==
    /\ IsCall(last, "addAttribute", 1)
    /\ last.kind = "throw"
    /\ builder[1].pid # Undefined
    /\ Len(builder[1].dimensionIdToAttribute) = NumDims

\* C4: as long as no setPID call has returned, getKey throws the no-PID
\* error, whatever has been collected; it returns no key.
C4_NoKeyWithoutPID ==
    \A b \in Builders :
        (IsCall(last, "getKey", b) /\ hist[b].pidsSet = {}) =>
            last.kind = "throw" /\ last.value = <<"no pid set">>

\* C4 witness: getKey threw on a builder without PID that holds an attribute
\* for every dimension and has seen addAttribute throw.
C4_Witness ==
    /\ IsCall(last, "getKey", 1)
    /\ last.kind = "throw"
    /\ hist[1].pidsSet = {}
    /\ hist[1].addThrew
    /\ Len(hist[1].added) = NumDims

IsPrefix(s, t) == Len(s) <= Len(t) /\ s = SubSeq(t, 1, Len(s))

\* C5: on a builder on which setPID was never called, the generator of
\* getUnusedAttributes yields AIDs for which addAttribute returned true, in
\* the order of those calls, and when it ends it has yielded each of them
\* once.
C5_UnusedWithoutPID ==
    [][\A b \in Builders :
        (IsCall(last', "next", b) /\ ~hist'[b].setPIDCalled) =>
            /\ IsPrefix(gen'[b].out, hist'[b].added)
            /\ Completes(b) => gen'[b].out = hist'[b].added
    ]_vars

\* C5 witness: the generator of a builder without PID has ended after
\* yielding one AID per dimension, collected in another order than that of
\* the AIDs, on a builder that has seen addAttribute throw.
C5_Witness ==
    /\ IsCall(last, "next", 1)
    /\ gen[1].state = "completed"
    /\ ~hist[1].setPIDCalled
    /\ hist[1].addThrew
    /\ Len(gen[1].out) = NumDims
    /\ gen[1].out[1] > gen[1].out[2]

\* C6: when getKey returns a key on one of two builders for which the same
\* setPID call and the same addAttribute calls succeeded, in whatever order,
\* getKey on the other builder returns the same key.
C6_KeyIndependentOfOrder ==
    \A b \in Builders :
        (/\ IsCall(last, "getKey", b)
         /\ last.kind = "return"
         /\ hist[1].pidsSet = hist[2].pidsSet
         /\ Range(hist[1].added) = Range(hist[2].added)) =>
            \A o \in Builders :
                /\ getKey(builder[o]).kind = "return"
                /\ getKey(builder[o]).value = last.value

\* C6 witness: a key was returned for entity 0, whose Matrix has two
\* dimensions, by the second of two builders that collected the same two
\* attributes in opposite orders.
C6_Witness ==
    /\ IsCall(last, "getKey", 2)
    /\ last.kind = "return"
    /\ hist[1].pidsSet = {0}
    /\ hist[2].pidsSet = {0}
    /\ Len(hist[1].added) = 2
    /\ hist[2].added = <<hist[1].added[2], hist[1].added[1]>>

HasNoDimensions(self) ==
    /\ self.pid # Undefined
    /\ getMatrixForEntity(self.pid[1]) # Undefined
    /\ Len(getMatrixForEntity(self.pid[1])[1].dimensions) = 0

\* C7: on a builder whose PID resolves to a Matrix without dimensions,
\* getKey returns the key made of the PID alone, whatever was collected, and
\* the generator of getUnusedAttributes, when it ends, has yielded every
\* collected AID.
C7_ZeroDimensionMatrix ==
    [][\A b \in Builders :
        HasNoDimensions(builder'[b]) =>
            /\ IsCall(last', "getKey", b) =>
                /\ last'.kind = "return"
                /\ last'.value = Some(<<<<"#", builder'[b].pid[1]>>>>)
            /\ Completes(b) => gen'[b].out = hist'[b].added
    ]_vars

\* C7 witness: getKey returned on a builder whose entity has no dimensions,
\* which holds an AID per dimension and whose generator has ended.
C7_Witness ==
    /\ HasNoDimensions(builder[1])
    /\ IsCall(last, "getKey", 1)
    /\ last.kind = "return"
    /\ gen[1].state = "completed"
    /\ Len(gen[1].out) = NumDims
    /\ Len(hist[1].added) = NumDims

----------------------------------------------------------------------------
(* Carts.  ItemInstance and Cart objects live on a heap and are named by   *)
(* references, so that an operation that writes to its argument differs    *)
(* from one that copies it.  items is the sequence of the ItemInstance     *)
(* objects allocated so far, an item's reference its index; carts maps the *)
(* references of the Cart objects the caller still holds to the objects.   *)
(* A Cart or an ItemInstance lists its items or children by reference.     *)
(* An operation takes the heap and returns the heap after the call and the *)
(* reference it returns.                                                   *)

\* interface ItemInstance
ItemInstance(uid, key, quantity, children) ==
    [uid |-> uid, key |-> key, quantity |-> quantity, children |-> children]

\* interface Cart
Cart(refs) == [items |-> refs]

CartRefs == 1..3

UIDs == 1..3

\* The key a MatrixEntityBuilder yields for an entity and its attributes.
RECURSIVE BuildWith(_, _)
BuildWith(self, aids) ==
    IF aids = << >> THEN self
    ELSE BuildWith(addAttribute(self, Head(aids)).self, Tail(aids))

BuildKey(pid, aids) ==
    getKey(BuildWith(setPID(NewBuilder, pid).self, aids)).value[1]

\* The items the caller starts from: two items of entity 1 that differ in
\* their attribute.
Fixture ==
    << ItemInstance(1, BuildKey(1, <<0>>), 1, << >>),
       ItemInstance(2, BuildKey(1, <<1>>), 1, << >>) >>

\* The reference of a newly allocated Cart object.
NewCartRef(cs) ==
    CHOOSE r \in CartRefs \ DOMAIN cs : \A q \in CartRefs \ DOMAIN cs : r <= q

Allocated(heap, ref) == [heap |-> heap, ref |-> ref]

\* Mutation of addToCart: the item is pushed onto the cart passed in.
addToCart_InPlace(heap, cart, item) ==
    Allocated([heap EXCEPT !.carts[cart].items = Append(@, item)], cart)

\* addToCart(cart, item): a shallow copy of the cart with the item appended.
addToCart(heap, cart, item) ==
    LET r == NewCartRef(heap.carts) IN
    Allocated([heap EXCEPT !.carts =
                    @ @@ (r :> Cart(Append(@[cart].items, item)))], r)

\* addToItem(parent, child): a shallow copy of the parent with the child
\* appended.
addToItem(heap, parent, child) ==
    Allocated([heap EXCEPT !.items =
                    Append(@, [@[parent] EXCEPT !.children = Append(@, child)])],
              Len(heap.items) + 1)

\* findInItemArray(items, predicate): the items for which the predicate
\* holds, in the order of the array.  A FindItemPredicate is the function
\* from the items of the heap to its answers.
findInItemArray(store, refs, predicate) ==
    SelectSeq(refs, LAMBDA ref : predicate[store[ref]])

\* findInCart(cart, predicate)
findInCart(heap, cart, predicate) ==
    findInItemArray(heap.items, heap.carts[cart].items, predicate)

\* Mutation of findByKey: the items of the entity of the key are a match.
findByKey_ByEntity(heap, cart, key) ==
    findInCart(heap, cart, [item \in Range(heap.items) |-> item.key[1] = key[1]])

\* findByKey(cart, key): the items whose key is the key passed in.
findByKey(heap, cart, key) ==
    findInCart(heap, cart, [item \in Range(heap.items) |-> item.key = key])

\* The PID a key starts with.
KeyPID(key) == key[1][2]

\* Mutation of findByPID: the search ends at its first match.
findByPID_FirstOnly(heap, cart, pid) ==
    LET found == findInCart(heap, cart,
                    [item \in Range(heap.items) |-> KeyPID(item.key) = pid])
    IN  IF found = << >> THEN << >> ELSE <<Head(found)>>

\* findByPID(cart, pid): the items whose key is one of the entity pid.
findByPID(heap, cart, pid) ==
    findInCart(heap, cart, [item \in Range(heap.items) |-> KeyPID(item.key) = pid])

\* Mutation of replaceInCart: the item of that uid is dropped and the new
\* item is appended.
replaceInCart_Appends(heap, cart, item) ==
    LET r == NewCartRef(heap.carts)
        uid == heap.items[item].uid
        kept == findInCart(heap, cart, [i \in Range(heap.items) |-> i.uid # uid])
    IN  Allocated([heap EXCEPT !.carts = @ @@ (r :> Cart(Append(kept, item)))], r)

\* replaceInCart(cart, item): a shallow copy of the cart in which the item
\* that shares the new item's uid is replaced with the new item.
replaceInCart(heap, cart, item) ==
    LET r == NewCartRef(heap.carts)
        old == heap.carts[cart].items
        uid == heap.items[item].uid
    IN  Allocated([heap EXCEPT !.carts = @ @@ (r :> Cart(
                    [k \in 1..Len(old) |->
                        IF heap.items[old[k]].uid = uid THEN item ELSE old[k]]))], r)

\* The items of refs without those of the uid.
RECURSIVE Omit(_, _, _)
Omit(store, refs, uid) ==
    IF refs = << >> THEN << >>
    ELSE IF store[Head(refs)].uid = uid THEN Omit(store, Tail(refs), uid)
    ELSE <<Head(refs)>> \o Omit(store, Tail(refs), uid)

\* The items of refs without the first one of the uid.
RECURSIVE OmitFirst(_, _, _)
OmitFirst(store, refs, uid) ==
    IF refs = << >> THEN << >>
    ELSE IF store[Head(refs)].uid = uid THEN Tail(refs)
    ELSE <<Head(refs)>> \o OmitFirst(store, Tail(refs), uid)

\* Mutation of removeFromCart: only the first item of the uid is omitted.
removeFromCart_FirstOnly(heap, cart, uid) ==
    LET r == NewCartRef(heap.carts) IN
    Allocated([heap EXCEPT !.carts =
                    @ @@ (r :> Cart(OmitFirst(heap.items, @[cart].items, uid)))], r)

\* removeFromCart(cart, uid): a shallow copy of the cart, omitting the item
\* with the uid passed in.
removeFromCart(heap, cart, uid) ==
    LET r == NewCartRef(heap.carts) IN
    Allocated([heap EXCEPT !.carts =
                    @ @@ (r :> Cart(Omit(heap.items, @[cart].items, uid)))], r)

----------------------------------------------------------------------------------------------------------------------------------------
(* The caller of the cart operations, after src/cart/test.ts: it starts    *)
(* from the fixture and holds a cart, myCart; it applies an operation to   *)
(* myCart and adopts the cart returned.  It keeps the argument of its last *)
(* call beside the result, and lets go of older carts.                     *)

InitCart ==
    /\ builder = [b \in Builders |-> NewBuilder]
    /\ gen = [b \in Builders |-> NoGenerator]
    /\ hist = [b \in Builders |-> NoHistory]
    /\ items = Fixture
    /\ carts = (1 :> Cart(<< >>))
    /\ myCart = 1
    /\ idCounter = Len(Fixture)
    /\ ruleSet = NoRules
    /\ tensor = Undefined
    /\ printer = NoPrinter
    /\ last = Call("new", 0, << >>, "return", << >>)

Keep(cs, refs) == [r \in refs \cap DOMAIN cs |-> cs[r]]

\* The heap as the call finds it.
Heap == [items |-> items, carts |-> Keep(carts, {myCart})]

\* myCart = cartOps.op(myCart, x)
Adopt(op, x, r) ==
    /\ items' = r.heap.items
    /\ carts' = Keep(r.heap.carts, {myCart, r.ref})
    /\ myCart' = r.ref
    /\ last' = Call(op, 0, <<myCart, x>>, "return", <<r.ref>>)
    /\ UNCHANGED <<builder, gen, hist, idCounter, rest>>

AddToCart ==
    \E item \in DOMAIN items :
        /\ Len(carts[myCart].items) < MaxCartLen
        /\ Adopt("addToCart", item, addToCart(Heap, myCart, item))

AddToItem ==
    \E parent \in DOMAIN items, child \in DOMAIN items :
        /\ Len(items) < MaxItems
        /\ LET r == addToItem(Heap, parent, child) IN
            /\ items' = r.heap.items
            /\ carts' = r.heap.carts
            /\ last' = Call("addToItem", 0, <<parent, child>>, "return", <<r.ref>>)
            /\ UNCHANGED <<builder, gen, hist, myCart, idCounter, rest>>

RemoveFromCart ==
    \E uid \in UIDs :
        Adopt("removeFromCart", uid, removeFromCart(Heap, myCart, uid))

ReplaceInCart ==
    \E item \in DOMAIN items :
        Adopt("replaceInCart", item, replaceInCart(Heap, myCart, item))

NextCart ==
    \/ AddToCart
    \/ AddToItem
    \/ RemoveFromCart
    \/ ReplaceInCart

SpecCart == InitCart /\ [][NextCart]_vars

----------------------------------------------------------------------------
(* Properties of the cart operations.  In a step of a cart operation,      *)
(* last'.arg[1] is the cart passed in, last'.arg[2] the item or uid passed *)
(* in and last'.value[1] the cart returned; for addToItem, last'.arg is    *)
(* the parent and the child and last'.value[1] the item returned.          *)

CartCalls == {"addToCart", "removeFromCart", "replaceInCart"}

\* The uids of the items a sequence of references names.
UidsOf(store, refs) == [k \in 1..Len(refs) |-> store[refs[k]].uid]

\* C8: addToCart, addToItem, removeFromCart and replaceInCart leave every
\* ItemInstance object and the cart passed in as they were before the call;
\* addToCart returns a cart whose items are those of the cart passed in
\* followed by the new item, addToItem an item whose children are those of
\* the parent passed in followed by the new child.
C8_ArgumentsNotMutated ==
    [][/\ last'.op \in CartCalls \cup {"addToItem"} =>
            /\ Len(items') >= Len(items)
            /\ \A i \in DOMAIN items : items'[i] = items[i]
       /\ last'.op \in CartCalls =>
            /\ last'.arg[1] \in DOMAIN carts'
            /\ carts'[last'.arg[1]] = carts[last'.arg[1]]
       /\ last'.op = "addToCart" =>
            carts'[last'.value[1]].items =
                Append(carts[last'.arg[1]].items, last'.arg[2])
       /\ last'.op = "addToItem" =>
            /\ items'[last'.value[1]].children =
                    Append(items[last'.arg[1]].children, last'.arg[2])
            /\ carts'[myCart'] = carts[myCart]
    ]_vars

\* C8 witness: addToCart has returned a cart of MaxCartLen items, while the
\* heap holds an item that addToItem returned.
C8_Witness ==
    /\ last.op = "addToCart"
    /\ Len(carts[last.value[1]].items) = MaxCartLen
    /\ Len(carts[last.arg[1]].items) = MaxCartLen - 1
    /\ Len(items) > Len(Fixture)

\* C9: the cart removeFromCart(cart, uid) returns holds no item of that uid
\* and holds the other items of the cart in their order, so that findByKey
\* and findByPID on it yield no item of that uid; when no item of the cart
\* has the uid, the uids of the result are those of the cart.
C9_RemovedUidIsGone ==
    [][last'.op = "removeFromCart" =>
        LET old == carts[last'.arg[1]].items
            uid == last'.arg[2]
            result == last'.value[1]
            new == carts'[result].items
            after == [items |-> items', carts |-> carts']
        IN  /\ \A k \in 1..Len(new) : items'[new[k]].uid # uid
            /\ new = SelectSeq(old, LAMBDA ref : items[ref].uid # uid)
            /\ \A item \in Range(items') :
                    uid \notin Range(UidsOf(items', findByKey(after, result, item.key)))
            /\ \A pid \in PIDs :
                    uid \notin Range(UidsOf(items', findByPID(after, result, pid)))
            /\ (\A k \in 1..Len(old) : items[old[k]].uid # uid) =>
                    UidsOf(items', new) = UidsOf(items, old)
    ]_vars

\* C9 witness: the middle item of a cart of three was removed and the two
\* others remain.
C9_Witness ==
    /\ last.op = "removeFromCart"
    /\ Len(carts[last.arg[1]].items) = 3
    /\ items[carts[last.arg[1]].items[2]].uid = last.arg[2]
    /\ carts[last.value[1]].items =
            <<carts[last.arg[1]].items[1], carts[last.arg[1]].items[3]>>

\* C10: when an item of the cart shares the uid of newItem, the cart
\* replaceInCart(cart, newItem) returns has the length of the cart, holds
\* newItem where the cart holds an item of that uid and the cart's item
\* everywhere else.
C10_ReplaceKeepsPosition ==
    [][last'.op = "replaceInCart" =>
        LET old == carts[last'.arg[1]].items
            item == last'.arg[2]
            new == carts'[last'.value[1]].items
        IN  (\E k \in 1..Len(old) : items[old[k]].uid = items[item].uid) =>
                /\ Len(new) = Len(old)
                /\ \A k \in 1..Len(old) :
                        new[k] = IF items[old[k]].uid = items[item].uid
                                 THEN item ELSE old[k]
    ]_vars

\* C10 witness: the middle item of a cart of three, between two items of
\* another uid, was replaced by another object of its uid.
C10_Witness ==
    /\ last.op = "replaceInCart"
    /\ LET old == carts[last.arg[1]].items
           new == carts[last.value[1]].items
       IN  /\ Len(old) = 3
           /\ old[2] # last.arg[2]
           /\ items[old[2]].uid = items[last.arg[2]].uid
           /\ items[old[1]].uid # items[last.arg[2]].uid
           /\ items[old[3]].uid # items[last.arg[2]].uid
           /\ new = <<old[1], last.arg[2], old[3]>>

----------------------------------------------------------------------------
(* Creating and re-deriving ItemInstances.  The uid of a new ItemInstance   *)
(* comes from nextId(), a counter; the key from a MatrixEntityBuilder.     *)

\* nextId() of id_generator: the counter after the call and the id returned.
nextId(counter) == [counter |-> counter + 1, value |-> counter + 1]

\* The outcome of an operation that may throw: the heap after the call, and
\* the reference returned or the message thrown.
Result(heap, kind, value) == [heap |-> heap, kind |-> kind, value |-> value]

\* A key with a wildcard field is a regular expression key.
IsRegexKey(key) == \E i \in 1..Len(key) : key[i][1] = "*"

\* The attribute a position of a dimension stands for.
AttributeAt(did, position) ==
    CHOOSE aid \in RegisteredAIDs :
        getAttributeCoordinates(aid) =
            Some([dimension |-> [id |-> did], position |-> position])

\* The attributes a key encodes, in the order of its fields.
KeyAIDs(key) ==
    LET dims == getMatrixForEntity(KeyPID(key))[1].dimensions
        chosen == SelectSeq([i \in 1..Len(dims) |-> i],
                            LAMBDA i : key[i + 1][1] = "#")
    IN  [k \in 1..Len(chosen) |-> AttributeAt(dims[chosen[k]], key[chosen[k] + 1][2])]

\* The ItemInstance of a key the builder returned, or what the builder threw.
NewItem(heap, uid, k, quantity, children) ==
    IF k.kind = "throw"
    THEN Result(heap, "throw", k.value)
    ELSE Result([heap EXCEPT !.items =
                        Append(@, ItemInstance(uid, k.value[1], quantity, children))],
                "return", <<Len(heap.items) + 1>>)

\* createItem(quantity, pid, aids, children, generateRegexKey): a new
\* ItemInstance with the uid passed in, which the caller draws from nextId().
createItem(heap, uid, quantity, pid, aids, children, generateRegexKey) ==
    LET k == getKey(BuildWith(setPID(NewBuilder, pid).self, aids)) IN
    IF k.kind = "return" /\ ~generateRegexKey /\ IsRegexKey(k.value[1])
    THEN Result(heap, "throw", <<"missing dimension">>)
    ELSE NewItem(heap, uid, k, quantity, children)

\* changeItemAttributes(item, newAIDs): a new ItemInstance whose key is that
\* of the item's attributes, those of newAIDs replacing the item's own in
\* their dimensions.
changeItemAttributes(heap, uid, item, newAIDs) ==
    LET old == heap.items[item]
        k == getKey(BuildWith(setPID(NewBuilder, KeyPID(old.key)).self,
                              newAIDs \o KeyAIDs(old.key)))
    IN  NewItem(heap, uid, k, old.quantity, old.children)

\* changeItemPID(item, newPID): a new ItemInstance whose key is that of the
\* entity newPID with the item's attributes.
changeItemPID(heap, uid, item, newPID) ==
    LET old == heap.items[item]
        k == getKey(BuildWith(setPID(NewBuilder, newPID).self, KeyAIDs(old.key)))
    IN  NewItem(heap, uid, k, old.quantity, old.children)

----------------------------------------------------------------------------
(* A caller that builds its cart from nothing: it creates items, derives   *)
(* items from them, and applies the cart operations to its cart.           *)

InitItems ==
    /\ builder = [b \in Builders |-> NewBuilder]
    /\ gen = [b \in Builders |-> NoGenerator]
    /\ hist = [b \in Builders |-> NoHistory]
    /\ items = << >>
    /\ carts = (1 :> Cart(<< >>))
    /\ myCart = 1
    /\ idCounter = 0
    /\ ruleSet = NoRules
    /\ tensor = Undefined
    /\ printer = NoPrinter
    /\ last = Call("new", 0, << >>, "return", << >>)

\* The entities and attribute lists the caller configures items with.
ItemPIDs == {1, 2}

ItemAIDs == {<< >>, <<0>>}

NewAIDs == {<<1>>}

\* item = cartOps.op(x, y), where the operation draws a uid from nextId()
\* once it has the key of the new item.
Derive(op, arg, id, r) ==
    /\ items' = r.heap.items
    /\ idCounter' = IF r.kind = "return" THEN id.counter ELSE idCounter
    /\ last' = Call(op, 0, arg, r.kind, r.value)
    /\ UNCHANGED <<builder, gen, hist, carts, myCart, rest>>

CreateItem ==
    \E pid \in ItemPIDs, aids \in ItemAIDs, generateRegexKey \in BOOLEAN :
        /\ Len(items) < MaxItems
        /\ LET id == nextId(idCounter) IN
            Derive("createItem", <<pid, aids>>, id,
                   createItem(Heap, id.value, 1, pid, aids, << >>, generateRegexKey))

ChangeItemAttributes ==
    \E item \in DOMAIN items, newAIDs \in NewAIDs :
        /\ Len(items) < MaxItems
        /\ LET id == nextId(idCounter) IN
            Derive("changeItemAttributes", <<item, newAIDs>>, id,
                   changeItemAttributes(Heap, id.value, item, newAIDs))

ChangeItemPID ==
    \E item \in DOMAIN items, newPID \in ItemPIDs :
        /\ Len(items) < MaxItems
        /\ LET id == nextId(idCounter) IN
            Derive("changeItemPID", <<item, newPID>>, id,
                   changeItemPID(Heap, id.value, item, newPID))

NextItems ==
    \/ CreateItem
    \/ ChangeItemAttributes
    \/ ChangeItemPID
    \/ AddToCart
    \/ AddToItem
    \/ RemoveFromCart
    \/ ReplaceInCart

SpecItems == InitItems /\ [][NextItems]_vars

----------------------------------------------------------------------------
(* A caller that creates items, adds them to its cart and searches it.  A  *)
(* search step is the call and the iteration of the iterator it returns to *)
(* its end; last'.value is the sequence of the items yielded.              *)

\* [...cartOps.findByX(myCart, x)]
Search(op, x, found) ==
    /\ last' = Call(op, 0, <<myCart, x>>, "return", found)
    /\ UNCHANGED <<builder, gen, hist, items, carts, myCart, idCounter, rest>>

FindByKey ==
    \E item \in DOMAIN items :
        Search("findByKey", items[item].key, findByKey(Heap, myCart, items[item].key))

FindByPID ==
    \E pid \in ItemPIDs : Search("findByPID", pid, findByPID(Heap, myCart, pid))

NextSearch ==
    \/ CreateItem
    \/ AddToCart
    \/ FindByKey
    \/ FindByPID

SpecSearch == InitItems /\ [][NextSearch]_vars

----------------------------------------------------------------------------
(* Properties of searching a cart.                                         *)

\* The step that searches, by the key of the item, the cart that the call
\* before it, addToCart, returned for an item the cart did not hold.
RoundTrip ==
    /\ last.op = "addToCart"
    /\ last.arg[2] \notin Range(carts[last.arg[1]].items)
    /\ last'.op = "findByKey"
    /\ last'.arg[1] = last.value[1]
    /\ last'.arg[2] = items[last.arg[2]].key

\* C11 as stated: createItem, addToCart and then findByKey on the resulting
\* cart with the key of the item yields that item and no other, whatever
\* the cart held before.
C11_OnlyThatItem ==
    [][RoundTrip => last'.value = <<last.arg[2]>>]_vars

\* C11, amended: createItem, addToCart and then findByKey on the resulting
\* cart with the key of the item yields the items of that key the cart held
\* before, in the order of the cart, and then the new item; so it yields the
\* new item once, as the last one, and yields it alone exactly when no item
\* the cart held before has its key.
C11_RoundTrip ==
    [][RoundTrip =>
        LET item == last.arg[2]
            old == carts[last.arg[1]].items
            same == SelectSeq(old, LAMBDA ref : items[ref].key = items[item].key)
        IN  /\ last'.value = Append(same, item)
            /\ last'.value = <<item>> <=> same = << >>
    ]_vars

\* C11 witness: the search for the key of the item just added to a cart of
\* two items, one of them of that key, has yielded that one and the new one.
C11_Witness ==
    /\ last.op = "findByKey"
    /\ LET cart == carts[myCart].items IN
        /\ Len(cart) = 3
        /\ items[cart[3]].key = last.arg[2]
        /\ cart[3] \notin {cart[1], cart[2]}
        /\ \E k \in 1..2 : /\ items[cart[k]].key = last.arg[2]
                           /\ items[cart[3 - k]].key # last.arg[2]
                           /\ last.value = <<cart[k], cart[3]>>

\* The index of the k-th of the items of refs that are of entity pid.
NthOfPID(store, refs, pid, k) ==
    LET matches == {i \in 1..Len(refs) : KeyPID(store[refs[i]].key) = pid}
    IN  CHOOSE i \in matches : Cardinality({j \in matches : j <= i}) = k

----------------------------------------------------------------------------
(* Properties of the uids of a cart.                                       *)

\* The ItemInstance objects of a cart: those that refs names and, level by
\* level, their children.
RECURSIVE Nodes(_, _)
Nodes(store, refs) ==
    IF refs = {} THEN {}
    ELSE refs \cup Nodes(store, UNION {Range(store[ref].children) : ref \in refs})

\* C13: in the cart of a caller that started from the empty cart and called
\* createItem, changeItemAttributes, changeItemPID, addToCart, addToItem,
\* replaceInCart and removeFromCart in any order, no two ItemInstance
\* objects, top-level or child, share a uid.
C13_UidsUnique ==
    \A a, b \in Nodes(items, Range(carts[myCart].items)) :
        a # b => items[a].uid # items[b].uid

----------------------------------------------------------------------------
(* The child-validity tensor.  A rule is [partialKey, rejects]: the key    *)
(* pattern of the parents it is about and the keys of the children it      *)
(* rejects.  A ValidChildPredicate is the function from the keys of the    *)
(* children to its answers; a ValidChildTensor, an object indexed by       *)
(* strings, is the sequence of its <<property, value>> entries in the      *)
(* order the properties were created.                                      *)

\* The partial keys and the keys of children that rules are written with.
PartialKeys ==
    { <<<<"#", 0>>, <<"*", 0>>, <<"*", 0>>>>,
      <<<<"#", 1>>, <<"*", 0>>>>,
      <<<<"#", 1>>, <<"#", 0>>>> }

ChildKeys == { <<<<"#", 2>>>>, <<<<"#", 1>>, <<"#", 1>>>> }

Rules == [partialKey : PartialKeys, rejects : SUBSET ChildKeys]

RuleConfigs ==
    {[rules |-> rules] : rules \in UNION {[1..n -> Rules] : n \in 0..MaxRules}}

\* (child: KEY): boolean => { return false; }
ValidChildPredicate(rule) == [child \in ChildKeys |-> FALSE]

\* Mutation of childTensorFactory: every rule gets an entry of its own.
RECURSIVE childTensorFactory_EntryPerRule(_)
childTensorFactory_EntryPerRule(config) ==
    IF config.rules = << >> THEN << >>
    ELSE LET rule == config.rules[Len(config.rules)]
             childTensor == childTensorFactory_EntryPerRule(
                                [rules |-> SubSeq(config.rules, 1, Len(config.rules) - 1)])
         IN  Append(childTensor, <<rule.partialKey, ValidChildPredicate(rule)>>)

\* childTensorFactory(ruleSet): the loop over ruleSet.rules, each turn
\* assigning a predicate to the property named by the rule's partial key.
RECURSIVE childTensorFactory(_)
childTensorFactory(config) ==
    IF config.rules = << >> THEN << >>
    ELSE LET rule == config.rules[Len(config.rules)]
             childTensor == childTensorFactory(
                                [rules |-> SubSeq(config.rules, 1, Len(config.rules) - 1)])
         IN  MapSet(childTensor, rule.partialKey, ValidChildPredicate(rule))

\* A caller that is given a rule set, builds the tensor from it and asks the
\* tensor's predicates about children.
InitTensor ==
    /\ builder = [b \in Builders |-> NewBuilder]
    /\ gen = [b \in Builders |-> NoGenerator]
    /\ hist = [b \in Builders |-> NoHistory]
    /\ items = << >>
    /\ carts = << >>
    /\ myCart = 0
    /\ idCounter = 0
    /\ ruleSet \in RuleConfigs
    /\ tensor = Undefined
    /\ printer = NoPrinter
    /\ last = Call("new", 0, << >>, "return", << >>)

\* tensor = childTensorFactory(ruleSet)
ChildTensorFactory ==
    /\ tensor = Undefined
    /\ tensor' = Some(childTensorFactory(ruleSet))
    /\ last' = Call("childTensorFactory", 0, << >>, "return", << >>)
    /\ UNCHANGED <<builder, gen, hist, items, carts, myCart, idCounter, ruleSet, printer>>

\* tensor[partialKey](child), for a property the tensor has.
AskPredicate ==
    /\ tensor # Undefined
    /\ \E partialKey \in PartialKeys, child \in ChildKeys :
        /\ MapHas(tensor[1], partialKey)
        /\ last' = Call("predicate", 0, <<partialKey, child>>, "return",
                        <<MapGet(tensor[1], partialKey)[1][child]>>)
    /\ UNCHANGED <<builder, gen, hist, items, carts, myCart, idCounter, ruleSet,
                   tensor, printer>>

NextTensor ==
    \/ ChildTensorFactory
    \/ AskPredicate

SpecTensor == InitTensor /\ [][NextTensor]_vars

\* The rules of the rule set that have the partial key.
RulesOf(partialKey) ==
    {i \in 1..Len(ruleSet.rules) : ruleSet.rules[i].partialKey = partialKey}

\* C14: the tensor childTensorFactory returns has an entry for a partial key
\* if and only if a rule of the rule set has that partial key, and then it
\* has one entry for it, a predicate, however many rules share the partial
\* key; a partial key without rule has no entry.
C14_OneEntryPerPartialKey ==
    tensor # Undefined =>
        LET props == tensor[1] IN
        /\ \A partialKey \in PartialKeys :
            LET entries == {i \in 1..Len(props) : props[i][1] = partialKey} IN
            /\ MapHas(props, partialKey) <=> RulesOf(partialKey) # {}
            /\ Cardinality(entries) = IF RulesOf(partialKey) # {} THEN 1 ELSE 0
            /\ \A i \in entries : props[i][2] \in [ChildKeys -> BOOLEAN]
        /\ \A i \in 1..Len(props) : props[i][1] \in PartialKeys

\* C14 witness: the tensor of a rule set in which two rules share a partial
\* key, a third has another and no rule has the remaining one.
C14_Witness ==
    /\ tensor # Undefined
    /\ Len(ruleSet.rules) = 3
    /\ Len(tensor[1]) = 2
    /\ \E partialKey \in PartialKeys :
        /\ Cardinality(RulesOf(partialKey)) = 2
        /\ MapHas(tensor[1], partialKey)
    /\ \E partialKey \in PartialKeys :
        /\ RulesOf(partialKey) = {}
        /\ ~MapHas(tensor[1], partialKey)

\* C15: the predicate the tensor holds under the partial key of a rule
\* answers for that rule: false for a child the rule rejects, true for a
\* child it does not reject.
C15_PredicateFollowsRule ==
    (tensor # Undefined /\ last.op = "predicate") =>
        \A i \in RulesOf(last.arg[1]) :
            RulesOf(last.arg[1]) = {i} =>
                last.value[1] = (last.arg[2] \notin ruleSet.rules[i].rejects)

----------------------------------------------------------------------------
(* A builder whose caller notes, when it calls getUnusedAttributes, the    *)
(* fields the builder has at that time, and goes on calling setPID and     *)
(* addAttribute while it iterates the generator.                           *)

GetUnusedAttributesNoted(b) ==
    /\ gen' = [gen EXCEPT ![b] = getUnusedAttributes(builder[b])]
    /\ hist' = [hist EXCEPT ![b].atCall = builder[b]]
    /\ last' = Call("getUnusedAttributes", b, << >>, "return", << >>)
    /\ UNCHANGED <<builder, items, carts, myCart, idCounter, rest>>

NextLazy ==
    \/ SetPID(1)
    \/ AddAttribute(1)
    \/ GetUnusedAttributesNoted(1)
    \/ GenNext(1)

SpecLazy == InitBuilders /\ [][NextLazy]_vars

----------------------------------------------------------------------------
(* Properties of getUnusedAttributes.                                      *)

\* The key has, in the field of the attribute's dimension, the attribute's
\* position.
EncodedInKey(key, matrix, aid) ==
    LET coordinate == getAttributeCoordinates(aid)[1] IN
    \E i \in 1..Len(matrix.dimensions) :
        /\ matrix.dimensions[i] = coordinate.dimension.id
        /\ key[i + 1] = <<"#", coordinate.position>>

\* C16: when the builder held, at the call of getUnusedAttributes, a PID
\* that resolves to a Matrix, the generator has yielded, when it ends, the
\* collected AIDs whose dimension the Matrix does not declare, in the order
\* they were collected; and every collected AID is either one of those or
\* encoded in the key getKey returns, and never both.
C16_UnusedOrEncoded ==
    [][\A b \in Builders :
        (/\ Completes(b)
         /\ hist[b].atCall.pid # Undefined
         /\ getMatrixForEntity(hist[b].atCall.pid[1]) # Undefined) =>
            LET matrix == getMatrixForEntity(builder'[b].pid[1])[1]
                key == getKey(builder'[b])
                unused == SelectSeq(hist'[b].added, LAMBDA aid :
                            ~MatrixHasDimension(matrix,
                                getAttributeCoordinates(aid)[1].dimension.id))
            IN  /\ gen'[b].out = unused
                /\ key.kind = "return"
                /\ \A aid \in Range(hist'[b].added) :
                        (aid \in Range(gen'[b].out))
                            <=> ~EncodedInKey(key.value[1], matrix, aid)
    ]_vars

\* C16 witness: the generator of a builder that held entity 1 and an AID per
\* dimension when getUnusedAttributes was called has ended, having yielded
\* the AIDs of the dimensions other than that of entity 1.
C16_Witness ==
    /\ IsCall(last, "next", 1)
    /\ gen[1].state = "completed"
    /\ hist[1].atCall.pid = Some(1)
    /\ Len(hist[1].atCall.dimensionIdToAttribute) = NumDims
    /\ Len(gen[1].out) = NumDims - 1
    /\ EncodedInKey(getKey(builder[1]).value[1], Matrix(<<1>>), hist[1].added[NumDims])

\* The builder holds a PID for which AttributeInfo has no Matrix.
HasNoMatrix(self) ==
    /\ self.pid # Undefined
    /\ getMatrixForEntity(self.pid[1]) = Undefined

\* C17: on a builder whose PID has no Matrix, the generator of
\* getUnusedAttributes, when it ends, has yielded every collected AID, and
\* getKey returns the key made of the PID alone; getKey throws only on a
\* builder without PID.
C17_NoMatrixIsZeroDimensions ==
    [][\A b \in Builders :
        /\ (Completes(b) /\ HasNoMatrix(builder'[b])) =>
                gen'[b].out = hist'[b].added
        /\ IsCall(last', "getKey", b) =>
            /\ last'.kind = "throw" => builder[b].pid = Undefined
            /\ HasNoMatrix(builder[b]) =>
                /\ last'.kind = "return"
                /\ last'.value = Some(<<<<"#", builder[b].pid[1]>>>>)
    ]_vars

\* The AIDs a builder with the fields of self holds for dimensions that the
\* Matrix of its entity, if it has one, does not declare, in the order they
\* were collected.
UnusedOf(self) ==
    LET entries == SelectSeq(self.dimensionIdToAttribute, LAMBDA entry :
                        ~MatrixHasDimension(genMatrix(self), entry[1]))
    IN  [i \in 1..Len(entries) |-> entries[i][2]]

\* C18: the generator getUnusedAttributes returns yields, to its end, the
\* unused AIDs of the PID and the attributes the builder held when
\* getUnusedAttributes was called, whatever setPID and addAttribute calls
\* are made between that call and the generator's end; and neither the call
\* nor the iteration changes the PID or the attributes of the builder.
C18_ReflectsStateAtCall ==
    [][\A b \in Builders :
        /\ (IsCall(last', "getUnusedAttributes", b) \/ IsCall(last', "next", b)) =>
                builder'[b] = builder[b]
        /\ Completes(b) => gen'[b].out = UnusedOf(hist[b].atCall)
    ]_vars

----------------------------------------------------------------------------
(* Properties of re-deriving an item.                                      *)

\* The step replaceInCart(cart, y), where the call before it derived y from
\* an item x of the cart with changeItemAttributes or changeItemPID.
SpliceBack ==
    /\ last.op \in {"changeItemAttributes", "changeItemPID"}
    /\ last.kind = "return"
    /\ last'.op = "replaceInCart"
    /\ last'.arg[2] = last.value[1]
    /\ last.arg[1] \in Range(carts[last'.arg[1]].items)

\* C19: for an item x of the cart, replaceInCart(cart, y) with y derived
\* from x by changeItemAttributes or changeItemPID returns a cart that holds
\* y wherever the cart holds x and the cart's item elsewhere, and so no
\* longer holds x; the cart passed in and x are as they were.
C19_SpliceChangedItem ==
    [][SpliceBack =>
        LET x == last.arg[1]
            y == last.value[1]
            old == carts[last'.arg[1]].items
            new == carts'[last'.value[1]].items
        IN  /\ Len(new) = Len(old)
            /\ \A k \in 1..Len(old) : new[k] = IF old[k] = x THEN y ELSE old[k]
            /\ x \notin Range(new)
            /\ carts'[last'.arg[1]] = carts[last'.arg[1]]
            /\ items'[x] = items[x]
    ]_vars

----------------------------------------------------------------------------
(* printResults of src/cart/test.ts, statement by statement.  printer is   *)
(* [pc, gen, done, console]: the statement to run next, the items the      *)
(* iterator gen has yet to yield, the local done and the lines written to  *)
(* the console.  While printResults runs, last is the call and its         *)
(* argument, the items the iterator yields.                                *)

\* gen.next() of an iterator that has the items of remaining still to yield.
IteratorNext(remaining) ==
    IF remaining = << >>
    THEN [gen |-> << >>, value |-> Undefined, done |-> TRUE]
    ELSE [gen |-> Tail(remaining), value |-> Some(Head(remaining)), done |-> FALSE]

\* console.log of a string, console.log of a value
LogText(text) == [kind |-> "text", text |-> text, value |-> Undefined]

LogValue(value) == [kind |-> "value", text |-> "", value |-> value]

InitPrint ==
    /\ builder = [b \in Builders |-> NewBuilder]
    /\ gen = [b \in Builders |-> NoGenerator]
    /\ hist = [b \in Builders |-> NoHistory]
    /\ items = Fixture
    /\ carts = (1 :> Cart(<< >>))
    /\ myCart = 1
    /\ idCounter = Len(Fixture)
    /\ ruleSet = NoRules
    /\ tensor = Undefined
    /\ printer = NoPrinter
    /\ last = Call("new", 0, << >>, "return", << >>)

PrintFrame == <<builder, gen, hist, items, carts, myCart, idCounter, ruleSet, tensor>>

\* printResults(gen) is called; let done: boolean = false;
PrintResults ==
    \E yields \in UNION {[1..n -> DOMAIN items] : n \in 0..MaxYield} :
        /\ printer.pc = "idle"
        /\ printer' = [pc |-> "while", gen |-> yields, done |-> FALSE, console |-> << >>]
        /\ last' = Call("printResults", 0, <<yields>>, "call", << >>)
        /\ UNCHANGED PrintFrame

\* while (!done)
PrintWhile ==
    /\ printer.pc = "while"
    /\ printer' = [printer EXCEPT !.pc = IF ~printer.done THEN "logText" ELSE "idle"]
    /\ last' = IF ~printer.done THEN last ELSE [last EXCEPT !.kind = "return"]
    /\ UNCHANGED PrintFrame

\* console.log('NEXT VALUE:');
PrintLogText ==
    /\ printer.pc = "logText"
    /\ printer' = [printer EXCEPT !.pc = "logValue",
                                  !.console = Append(@, LogText("NEXT VALUE:"))]
    /\ UNCHANGED <<PrintFrame, last>>

\* console.log(gen.next().value);
PrintLogValue ==
    /\ printer.pc = "logValue"
    /\ LET r == IteratorNext(printer.gen) IN
        printer' = [printer EXCEPT !.pc = "setDone", !.gen = r.gen,
                                   !.console = Append(@, LogValue(r.value))]
    /\ UNCHANGED <<PrintFrame, last>>

\* done = gen.next().done;
PrintSetDone ==
    /\ printer.pc = "setDone"
    /\ LET r == IteratorNext(printer.gen) IN
        printer' = [printer EXCEPT !.pc = "while", !.gen = r.gen, !.done = r.done]
    /\ UNCHANGED <<PrintFrame, last>>

NextPrint ==
    \/ PrintResults
    \/ PrintWhile
    \/ PrintLogText
    \/ PrintLogValue
    \/ PrintSetDone

SpecPrint == InitPrint /\ [][NextPrint]_vars

\* The values written to the console, without the lines of text.
LoggedValues ==
    LET values == SelectSeq(printer.console, LAMBDA line : line.kind = "value")
    IN  [i \in 1..Len(values) |-> values[i].value]

\* C20: printResults(gen) ends for an iterator that yields finitely many
\* items: as long as it has not returned it has a statement to run, and it
\* writes no more than a text and a value per call of next() that the
\* iterator can answer before it is done; when it has returned, the values
\* it wrote are the items the iterator yields, each once and in order, and
\* none when the iterator yields no item.
C20_LogsEveryItemOnce ==
    last.op = "printResults" =>
        LET yields == last.arg[1] IN
        /\ last.kind = "call" => ENABLED NextPrint
        /\ Len(printer.console) <= 2 * (Len(yields) + 1)
        /\ last.kind = "return" =>
                LoggedValues = [i \in 1..Len(yields) |-> Some(yields[i])]

====
